---- MODULE Spec2Model ----
(***************************************************************************)
(* VisionAid (app.js): the voice command dispatch and session state        *)
(* machine.  One action per event handler or per resumption of an async    *)
(* function after an await; everything a handler does between two          *)
(* suspension points is one atomic step, as the browser event loop runs    *)
(* it.                                                                     *)
(***************************************************************************)
EXTENDS Integers, Sequences, FiniteSets, TLC

VARIABLES
  isBusy,               \* app.js:18   throttle flag
  shouldAutoListen,     \* app.js:21
  objectDetectionModel, \* app.js:15   TRUE once cocoSsd.load() has resolved
  rec,                  \* the SpeechRecognition session: idle / listening / ending
  tasks,                \* async functions suspended at an await
  errTimers,            \* pending setTimeout(..., 800) of the 'error' listener
  dwellTimers,          \* pending setTimeout(resetApp, 8000); the scheduling cycle's id
  srcObject,            \* cameraView.srcObject: 0 (null) or the id of a stream
  liveStreams,          \* acquired streams whose tracks have not been stopped
  hidden,               \* cameraView.hidden
  statusText,           \* statusText.textContent
  resultDiv,            \* resultDiv.textContent, as a sequence of text pieces
  processing,           \* aria-busy, set by setProcessing
  appConfig,            \* window.AppConfig: absent, with an empty apiKey, or with a key
  cameraViewOk,         \* document.getElementById("cameraView") is a video element
  ncmd,                 \* recognition results delivered so far
  log                   \* what the last handler step did (history)

vars == <<isBusy, shouldAutoListen, objectDetectionModel, rec, tasks, errTimers,
          dwellTimers, srcObject, liveStreams, hidden, statusText, resultDiv,
          processing, appConfig, cameraViewOk, ncmd, log>>

(* ------------------------------ bounds -------------------------------- *)
MaxCommands == 2     \* recognition results the user produces in one run
MaxErrTimers == 1    \* error-backoff timers pending at once
MaxPreds == 3        \* predictions one inference pass returns (SpecAnalyze)
MaxDetections == 6   \* detections above the threshold in one pass (SpecNarrate)

(* ------------------------- program constants -------------------------- *)
NumPasses == 3
Threshold == 500     \* 0.5, scores are in thousandths
MaxNarrated == 5

HELP_MESSAGE == "You can say: open camera, what's in front, detect objects, or help."
IdlePrompt == "Say 'Open camera' or 'What is in front of me?'"
DefaultCameraError == "Unable to access the camera."
NotConfigured == <<"General Q&A is not configured. Please add your API key.">>
QAFallback == <<"I couldn't get an answer right now.">>
NoAnswerYet == <<"I don't have an answer yet.">>
CannotIdentify == <<"I cannot clearly identify any objects.">>

(* --------------------------- configuration ---------------------------- *)
\* config.sample.js:4-11; config.js may be missing altogether
AppConfigs == {"absent", "emptyKey", "key"}

hasKey_AnyConfig == appConfig # "absent"

\* app.js:267-268  cfg = window.AppConfig || {}; cfg.apiKey is non-empty
hasKey == appConfig = "key"

(* ---------------------------- transcripts ----------------------------- *)
\* A transcript is described by the trigger-phrase sets it contains a phrase
\* of, and by its body: the empty string, only white space, or words.  Only
\* a transcript with words can contain a trigger phrase.
Bodies == {"empty", "spaces", "words"}

Transcripts ==
  { t \in [help : BOOLEAN, open : BOOLEAN, close : BOOLEAN, detect : BOOLEAN,
           body : Bodies] :
      (t.help \/ t.open \/ t.close \/ t.detect) => t.body = "words" }

NoTranscript == [help |-> FALSE, open |-> FALSE, close |-> FALSE, detect |-> FALSE,
                 body |-> "empty"]

Trimmed_NoTrim(body) == body

\* app.js:260  String(queryText || "").trim()
Trimmed(body) == IF body = "spaces" THEN "empty" ELSE body

Classify_OpenBeforeHelp(t) ==
  IF t.open THEN "open"
  ELSE IF t.help THEN "help"
  ELSE IF t.close THEN "close"
  ELSE IF t.detect THEN "detect"
  ELSE "question"

\* app.js:90-118, the if-chain of the 'result' listener
Classify(t) ==
  IF t.help THEN "help"
  ELSE IF t.open THEN "open"
  ELSE IF t.close THEN "close"
  ELSE IF t.detect THEN "detect"
  ELSE "question"

(* ----------------------------- detections ----------------------------- *)
DetLow == [class |-> "person", score |-> 500]
DetA   == [class |-> "apple",  score |-> 904]
DetB   == [class |-> "person", score |-> 605]
DetSet == {DetLow, DetA, DetB}

RECURSIVE SeqsUpTo(_, _)
SeqsUpTo(S, n) ==
  IF n = 0 THEN {<<>>}
  ELSE LET shorter == SeqsUpTo(S, n - 1)
       IN  shorter \cup { Append(s, x) : s \in {q \in shorter : Len(q) = n - 1}, x \in S }

AllPreds == SeqsUpTo(DetSet, MaxPreds)
\* In the session specifications every inference pass returns this list; the
\* aggregation over arbitrary lists is checked in SpecAnalyze.
SmallPreds == {<<DetLow, DetA>>}

Filter_AtLeast(preds) == SelectSeq(preds, LAMBDA p : p.score >= Threshold)

\* app.js:219  predictions.filter(p => typeof p.score === "number" && p.score > 0.5)
Filter(preds) == SelectSeq(preds, LAMBDA p : p.score > Threshold)

KeepBest_LastOnTies(best, detections) ==
  IF Len(detections) >= Len(best) THEN detections ELSE best

\* app.js:220  if (detections.length > bestDetections.length) bestDetections = detections
KeepBest(best, detections) ==
  IF Len(detections) > Len(best) THEN detections ELSE best

PauseAfter_EveryPass(i) == TRUE

\* app.js:221  if (i < 2) await new Promise(r => setTimeout(r, 200))
PauseAfter(i) == i < 2

(* ------------------------------ narration ----------------------------- *)
\* app.js:242  /^[aeiou]/i.test(word)
toArticle(word) == IF word \in {"apple", "object", "umbrella", "orange"} THEN "an" ELSE "a"

\* app.js:245  Math.round(score * 100), score in thousandths
Pct(score) == (score + 5) \div 10

\* app.js:243-247
Render(d) == <<toArticle(d.class), " ", d.class, " with ", ToString(Pct(d.score)),
               "% confidence">>

RECURSIVE JoinWith(_, _)
\* Array.prototype.join; a text is the sequence of its pieces, the separator
\* ", " the pieces "," and " ", the separator "" no piece
JoinWith(items, sep) ==
  IF Len(items) = 0 THEN <<>>
  ELSE IF Len(items) = 1 THEN items[1]
  ELSE items[1] \o sep \o JoinWith(Tail(items), sep)

joinNatural_Oxford(items, conj) ==
  IF Len(items) <= 1 THEN JoinWith(items, <<>>)
  ELSE IF Len(items) = 2 THEN items[1] \o <<" ", conj, " ">> \o items[2]
  ELSE JoinWith(SubSeq(items, 1, Len(items) - 1), <<",", " ">>)
         \o <<",", " ", conj, " ">> \o items[Len(items)]

\* app.js:229-233
joinNatural(items, conj) ==
  IF Len(items) <= 1 THEN JoinWith(items, <<>>)
  ELSE IF Len(items) = 2 THEN items[1] \o <<" ", conj, " ">> \o items[2]
  ELSE JoinWith(SubSeq(items, 1, Len(items) - 1), <<",", " ">>)
         \o <<" ", conj, " ">> \o items[Len(items)]

\* app.js:237-250
Describe(detections) ==
  IF Len(detections) = 0 THEN CannotIdentify
  ELSE LET n == IF Len(detections) < MaxNarrated THEN Len(detections) ELSE MaxNarrated
           parts == [k \in 1..n |-> Render(detections[k])]
       IN  <<"I detect ">> \o joinNatural(parts, "and") \o <<".">>

(* -------------------------------- log --------------------------------- *)
NoDet == [passes |-> <<>>, pausedAfter |-> {}, narrated |-> <<>>]

BaseLog == [op |-> "load", busy |-> FALSE, t |-> NoTranscript, intent |-> "none",
            calls |-> {}, said |-> <<>>, start |-> "none", det |-> NoDet,
            failed |-> FALSE, done |-> FALSE, timer |-> 0, input |-> "none"]

Step(op) == [BaseLog EXCEPT !.op = op, !.busy = isBusy]

(* ------------------------------- tasks -------------------------------- *)
NewTask(id, kind, pc) ==
  [id |-> id, kind |-> kind, pc |-> pc, i |-> 0, best |-> <<>>, passes |-> <<>>,
   pausedAfter |-> {}]

(* ------------------------------- Init --------------------------------- *)
\* The state after the window 'load' listener (app.js:39-59) has run:
\* recognition was created and started.
Init ==
  /\ isBusy = FALSE
  /\ shouldAutoListen = TRUE
  /\ objectDetectionModel = FALSE
  /\ rec = "listening"
  /\ tasks = {}
  /\ errTimers = 0
  /\ dwellTimers = {}
  /\ srcObject = 0
  /\ liveStreams = {}
  /\ hidden = TRUE
  /\ statusText = "Listening..."
  /\ resultDiv = <<>>
  /\ processing = FALSE
  /\ appConfig \in AppConfigs
  /\ cameraViewOk \in BOOLEAN
  /\ ncmd = 0
  /\ log = [BaseLog EXCEPT !.start = "ok", !.calls = {"start"}]

(* --------------------------- shared pieces ---------------------------- *)
TryStart_Missing(r) == r

\* app.js:130, 141  try { recognition.start(); } catch (_) {}
\* start() on a session that is not idle throws InvalidStateError, swallowed.
TryStart(r) == IF r = "idle" THEN "listening" ELSE r

StartOutcome(r) == IF r = "idle" THEN "ok" ELSE "throws"

EndRestartGuard_IgnoresBusy == shouldAutoListen

\* app.js:127  if (shouldAutoListen && !isBusy)
EndRestartGuard == shouldAutoListen /\ ~isBusy

TimerRestartGuard_IgnoresBusy == shouldAutoListen

\* app.js:140  if (shouldAutoListen && !isBusy)
TimerRestartGuard == shouldAutoListen /\ ~isBusy

\* What resetApp reads and writes, as a record
Surface ==
  [srcObject |-> srcObject, liveStreams |-> liveStreams, hidden |-> hidden,
   statusText |-> statusText, processing |-> processing, isBusy |-> isBusy,
   shouldAutoListen |-> shouldAutoListen]

resetApp_ToggleHidden(s) ==
  [s EXCEPT !.liveStreams = IF cameraViewOk THEN @ \ {s.srcObject} ELSE @,
            !.srcObject = IF cameraViewOk THEN 0 ELSE @,
            !.hidden = IF cameraViewOk THEN ~@ ELSE @,
            !.statusText = IdlePrompt,
            !.processing = FALSE,
            !.isBusy = FALSE]

\* app.js:322-336  resetApp: stop the attached stream's tracks, detach it,
\* hide the video, idle status, indicator off, isBusy false
resetApp(s) ==
  [s EXCEPT !.liveStreams = IF cameraViewOk THEN @ \ {s.srcObject} ELSE @,
            !.srcObject = IF cameraViewOk THEN 0 ELSE @,
            !.hidden = IF cameraViewOk THEN TRUE ELSE @,
            !.statusText = IdlePrompt,
            !.processing = FALSE,
            !.isBusy = FALSE]

\* resetApp applied to the state, but for the status line, which the caller
\* may overwrite in the same step (app.js:105-107)
ResetCamera ==
  LET r == resetApp(Surface)
  IN  /\ liveStreams' = r.liveStreams
      /\ srcObject' = r.srcObject
      /\ hidden' = r.hidden
      /\ processing' = r.processing
      /\ isBusy' = r.isBusy

CameraOn == <<"Camera is on. How can I help you?">>

\* app.js:199-202 then app.js:98-101 or 114: the finally block of startCamera
\* and what the 'result' listener does once startCamera has returned.
\* status0 is the status line startCamera left, lg the log of the step so far.
AfterStartCamera(task, status0, lg) ==
  /\ processing' = FALSE
  /\ isBusy' = FALSE
  /\ tasks' = tasks \ {task}
  /\ IF task.kind = "open"
       THEN /\ statusText' = "Camera is on. Listening..."
            /\ shouldAutoListen' = TRUE
            /\ log' = [lg EXCEPT !.said = lg.said \o <<CameraOn>>, !.done = TRUE]
       ELSE /\ statusText' = status0
            /\ UNCHANGED shouldAutoListen
            /\ log' = [lg EXCEPT !.done = TRUE]

\* app.js:194-198  the catch block of startCamera
ErrMessage(e) == IF e = "" THEN DefaultCameraError ELSE e

CameraFailed(task, op, e) ==
  /\ AfterStartCamera(task, ErrMessage(e),
                      [Step(op) EXCEPT !.said = << <<ErrMessage(e)>> >>, !.failed = TRUE])
  /\ UNCHANGED <<objectDetectionModel, rec, errTimers, dwellTimers, srcObject,
                 liveStreams, hidden, resultDiv, appConfig, cameraViewOk, ncmd>>

(* ------------------- the recognition 'result' listener ---------------- *)
\* app.js:90-94
HelpBranch(lg) ==
  /\ statusText' = HELP_MESSAGE
  /\ log' = [lg EXCEPT !.said = << <<HELP_MESSAGE>> >>, !.done = TRUE]
  /\ UNCHANGED <<isBusy, shouldAutoListen, objectDetectionModel, tasks, dwellTimers,
                 srcObject, liveStreams, hidden, resultDiv, processing>>

\* app.js:148-168  startCamera up to its first await; without a video element
\* it throws into the listener's catch block (app.js:119-123).
StartCameraCall(kind, lg) ==
  IF ~cameraViewOk
    THEN /\ statusText' = "An error occurred."
         /\ log' = [lg EXCEPT !.calls = {"startCamera"}, !.failed = TRUE, !.done = TRUE,
                              !.said = << <<"Camera is not available.">>,
                                          <<"I encountered an error processing your request.">> >>]
         /\ UNCHANGED <<isBusy, shouldAutoListen, objectDetectionModel, tasks,
                        dwellTimers, srcObject, liveStreams, hidden, resultDiv,
                        processing>>
    ELSE /\ isBusy' = TRUE
         /\ processing' = TRUE
         /\ statusText' = "Opening camera..."
         /\ tasks' = tasks \cup {NewTask(ncmd + 1, kind, "gum")}
         /\ log' = [lg EXCEPT !.calls = {"startCamera", "getUserMedia"}]
         /\ UNCHANGED <<shouldAutoListen, objectDetectionModel, dwellTimers, srcObject,
                        liveStreams, hidden, resultDiv>>

\* app.js:104-110
CloseBranch(lg) ==
  /\ ResetCamera
  /\ statusText' = "Camera is off. Listening..."
  /\ shouldAutoListen' = TRUE
  /\ log' = [lg EXCEPT !.calls = {"resetApp"}, !.said = << <<"Camera is off.">> >>,
                       !.done = TRUE]
  /\ UNCHANGED <<objectDetectionModel, tasks, dwellTimers, resultDiv>>

\* app.js:266-278 and 292-311  up to the await of fetch
AskOrDecline(lg) ==
  IF ~hasKey
    THEN /\ resultDiv' = NotConfigured
         /\ log' = [lg EXCEPT !.calls = {"handleGeneralQuestion"},
                              !.said = <<NotConfigured>>, !.done = TRUE]
         /\ UNCHANGED <<isBusy, shouldAutoListen, objectDetectionModel, tasks,
                        dwellTimers, srcObject, liveStreams, hidden, statusText,
                        processing>>
    ELSE /\ processing' = TRUE
         /\ statusText' = "Thinking..."
         /\ tasks' = tasks \cup {NewTask(ncmd + 1, "question", "fetch")}
         /\ log' = [lg EXCEPT !.calls = {"handleGeneralQuestion", "askLLM", "fetch"}]
         /\ UNCHANGED <<isBusy, shouldAutoListen, objectDetectionModel, dwellTimers,
                        srcObject, liveStreams, hidden, resultDiv>>

HandleGeneralQuestion_NoBlankCheck(t, lg) == AskOrDecline(lg)

\* app.js:259-264, then AskOrDecline
HandleGeneralQuestion(t, lg) ==
  IF Trimmed(t.body) = "empty"
    THEN /\ statusText' = "Listening..."
         /\ log' = [lg EXCEPT !.calls = {"handleGeneralQuestion"}, !.done = TRUE]
         /\ UNCHANGED <<isBusy, shouldAutoListen, objectDetectionModel, tasks,
                        dwellTimers, srcObject, liveStreams, hidden, resultDiv,
                        processing>>
    ELSE AskOrDecline(lg)

\* app.js:76-124
RecResult(t) ==
  /\ rec = "listening"
  /\ ncmd < MaxCommands
  /\ rec' = "ending"
  /\ ncmd' = ncmd + 1
  /\ LET intent == Classify(t)
         lg == [Step("result") EXCEPT !.t = t, !.intent = intent]
     IN  CASE intent = "help"   -> HelpBranch(lg)
           [] intent = "open"   -> StartCameraCall("open", lg)
           [] intent = "close"  -> CloseBranch(lg)
           [] intent = "detect" -> StartCameraCall("detect", lg)
           [] OTHER             -> HandleGeneralQuestion(t, lg)
  /\ UNCHANGED <<errTimers, appConfig, cameraViewOk>>

(* --------------------- the other recognition events ------------------- *)
\* app.js:126-133
RecEnd ==
  /\ rec = "ending"
  /\ IF EndRestartGuard
       THEN /\ statusText' = "Listening..."
            /\ rec' = TryStart("idle")
            /\ log' = [Step("end") EXCEPT !.calls = {"start"}, !.start = StartOutcome("idle")]
       ELSE /\ rec' = "idle"
            /\ log' = Step("end")
            /\ UNCHANGED statusText
  /\ UNCHANGED <<isBusy, shouldAutoListen, objectDetectionModel, tasks, errTimers,
                 dwellTimers, srcObject, liveStreams, hidden, resultDiv, processing,
                 appConfig, cameraViewOk, ncmd>>

\* app.js:135-144  the listener itself; the session then ends
RecError ==
  /\ rec = "listening"
  /\ errTimers < MaxErrTimers
  /\ rec' = "ending"
  /\ statusText' = "Speech recognition error. Retrying..."
  /\ errTimers' = errTimers + 1
  /\ log' = Step("error")
  /\ UNCHANGED <<isBusy, shouldAutoListen, objectDetectionModel, tasks, dwellTimers,
                 srcObject, liveStreams, hidden, resultDiv, processing, appConfig,
                 cameraViewOk, ncmd>>

\* The session ends with neither a result nor an error (no listener in app.js).
RecNoMatch ==
  /\ rec = "listening"
  /\ rec' = "ending"
  /\ log' = Step("nomatch")
  /\ UNCHANGED <<isBusy, shouldAutoListen, objectDetectionModel, tasks, errTimers,
                 dwellTimers, srcObject, liveStreams, hidden, statusText, resultDiv,
                 processing, appConfig, cameraViewOk, ncmd>>

\* app.js:139-143  the timer callback
ErrTimerFire ==
  /\ errTimers > 0
  /\ errTimers' = errTimers - 1
  /\ IF TimerRestartGuard
       THEN /\ rec' = TryStart(rec)
            /\ log' = [Step("errTimer") EXCEPT !.calls = {"start"}, !.start = StartOutcome(rec)]
       ELSE /\ UNCHANGED rec
            /\ log' = Step("errTimer")
  /\ UNCHANGED <<isBusy, shouldAutoListen, objectDetectionModel, tasks, dwellTimers,
                 srcObject, liveStreams, hidden, statusText, resultDiv, processing,
                 appConfig, cameraViewOk, ncmd>>

(* ------------------------ startCamera, resumed ------------------------ *)
GumErrors == {"", "Permission denied"}
ModelErrors == {"model failed"}

Replace(task, new) == tasks' = (tasks \ {task}) \cup {new}

\* app.js:168-185  getUserMedia resolved: attach the stream, wait for the
\* video element to report it playable.  The stream is named after the cycle.
GumResolve(task) ==
  /\ task.pc = "gum"
  /\ srcObject' = task.id
  /\ liveStreams' = liveStreams \cup {task.id}
  /\ Replace(task, [task EXCEPT !.pc = "ready"])
  /\ log' = Step("gum")
  /\ UNCHANGED <<isBusy, shouldAutoListen, objectDetectionModel, rec, errTimers,
                 dwellTimers, hidden, statusText, resultDiv, processing, appConfig,
                 cameraViewOk, ncmd>>

\* app.js:168 rejected, then 194-202
GumReject(task, e) ==
  /\ task.pc = "gum"
  /\ CameraFailed(task, "gumFail", e)

NeedsLoad_Always == TRUE

\* app.js:211  if (!objectDetectionModel)
NeedsLoad == ~objectDetectionModel

\* app.js:175, 187-193, then analyzeImage (206-218) up to its first await, or
\* the end of startCamera
StreamReady(task) ==
  /\ task.pc = "ready"
  /\ srcObject # 0
  /\ hidden' = FALSE
  /\ IF task.kind = "open"
       THEN /\ AfterStartCamera(task, "Camera on.", Step("ready"))
            /\ UNCHANGED objectDetectionModel
       ELSE /\ processing' = TRUE
            /\ statusText' = "Processing..."
            /\ Replace(task, [task EXCEPT !.pc = IF NeedsLoad THEN "load" ELSE "detect"])
            /\ log' = [Step("ready") EXCEPT
                         !.calls = {"analyzeImage",
                                    IF NeedsLoad THEN "load" ELSE "detect"}]
            /\ UNCHANGED <<isBusy, shouldAutoListen, objectDetectionModel>>
  /\ UNCHANGED <<rec, errTimers, dwellTimers, srcObject, liveStreams, resultDiv,
                 appConfig, cameraViewOk, ncmd>>

\* app.js:176  the video element's 'error' event: an Event, it has no message
StreamError(task) ==
  /\ task.pc = "ready"
  /\ CameraFailed(task, "streamFail", "")

\* app.js:174-185  none of loadedmetadata, canplay, error is ever dispatched:
\* the promise stays pending (no timeout is armed)
StreamNever(task) ==
  /\ task.pc = "ready"
  /\ Replace(task, [task EXCEPT !.pc = "hung"])
  /\ log' = Step("never")
  /\ UNCHANGED <<isBusy, shouldAutoListen, objectDetectionModel, rec, errTimers,
                 dwellTimers, srcObject, liveStreams, hidden, statusText, resultDiv,
                 processing, appConfig, cameraViewOk, ncmd>>

(* ------------------------ analyzeImage, resumed ----------------------- *)
\* app.js:212-213, then the first detect call (218)
ModelLoadOk(task) ==
  /\ task.pc = "load"
  /\ objectDetectionModel' = TRUE
  /\ Replace(task, [task EXCEPT !.pc = "detect"])
  /\ log' = [Step("loaded") EXCEPT !.calls = {"detect"}]
  /\ UNCHANGED <<isBusy, shouldAutoListen, rec, errTimers, dwellTimers, srcObject,
                 liveStreams, hidden, statusText, resultDiv, processing, appConfig,
                 cameraViewOk, ncmd>>

\* app.js:212 rejected, then 194-202
ModelLoadFail(task, e) ==
  /\ task.pc = "load"
  /\ CameraFailed(task, "loadFail", e)

ScheduleDwell_Missing(timers, id) == timers

\* app.js:255  setTimeout(resetApp, 8000): one more pending timer, named
\* after the cycle that armed it
ScheduleDwell(timers, id) == timers \cup {id}

\* app.js:217 (i++, i < 3), then either the next detect call or 224-225,
\* speakResults (236-255) and the return through startCamera's finally.
\* task is the suspended function, t2 its locals after the step so far.
LoopNext(task, t2, lg) ==
  IF t2.i + 1 < NumPasses
    THEN /\ Replace(task, [t2 EXCEPT !.i = @ + 1, !.pc = "detect"])
         /\ log' = [lg EXCEPT !.calls = {"detect"}]
         /\ UNCHANGED <<isBusy, shouldAutoListen, dwellTimers, statusText, resultDiv,
                        processing>>
    ELSE /\ resultDiv' = Describe(t2.best)
         /\ dwellTimers' = ScheduleDwell(dwellTimers, task.id)
         /\ AfterStartCamera(task, statusText,
              [lg EXCEPT !.calls = {"speakResults"},
                         !.timer = task.id,
                         !.said = <<Describe(t2.best)>>,
                         !.det = [passes |-> t2.passes, pausedAfter |-> t2.pausedAfter,
                                  narrated |-> t2.best]])

\* app.js:218-221  one inference pass resolved with predictions preds
DetectResolve(task, preds) ==
  /\ task.pc = "detect"
  /\ LET detections == Filter(preds)
         t2 == [task EXCEPT !.best = KeepBest(@, detections),
                            !.passes = Append(@, detections)]
     IN  IF PauseAfter(task.i)
           THEN /\ Replace(task, [t2 EXCEPT !.pc = "pause",
                                            !.pausedAfter = @ \cup {task.i + 1}])
                /\ log' = Step("pass")
                /\ UNCHANGED <<isBusy, shouldAutoListen, dwellTimers, statusText,
                               resultDiv, processing>>
           ELSE LoopNext(task, t2, Step("pass"))
  /\ UNCHANGED <<objectDetectionModel, rec, errTimers, srcObject, liveStreams, hidden,
                 appConfig, cameraViewOk, ncmd>>

\* app.js:218 rejected, then 194-202
DetectReject(task, e) ==
  /\ task.pc = "detect"
  /\ CameraFailed(task, "detectFail", e)

\* app.js:221  the 200 ms timer fired
PauseDone(task) ==
  /\ task.pc = "pause"
  /\ LoopNext(task, task, Step("paused"))
  /\ UNCHANGED <<objectDetectionModel, rec, errTimers, srcObject, liveStreams, hidden,
                 appConfig, cameraViewOk, ncmd>>

(* ------------------- handleGeneralQuestion, resumed ------------------- *)
QAFailed_KeepsIndicator(task, op) ==
  /\ resultDiv' = QAFallback
  /\ tasks' = tasks \ {task}
  /\ log' = [Step(op) EXCEPT !.said = <<QAFallback>>, !.failed = TRUE, !.done = TRUE]
  /\ UNCHANGED <<isBusy, shouldAutoListen, objectDetectionModel, rec, errTimers,
                 dwellTimers, srcObject, liveStreams, hidden, statusText, processing,
                 appConfig, cameraViewOk, ncmd>>

\* app.js:282-289  the catch and finally blocks
QAFailed(task, op) ==
  /\ resultDiv' = QAFallback
  /\ processing' = FALSE
  /\ tasks' = tasks \ {task}
  /\ log' = [Step(op) EXCEPT !.said = <<QAFallback>>, !.failed = TRUE, !.done = TRUE]
  /\ UNCHANGED <<isBusy, shouldAutoListen, objectDetectionModel, rec, errTimers,
                 dwellTimers, srcObject, liveStreams, hidden, statusText, appConfig,
                 cameraViewOk, ncmd>>

\* app.js:296-316  fetch resolved; a non-ok status throws
FetchResolve(task, ok) ==
  /\ task.pc = "fetch"
  /\ IF ok
       THEN /\ Replace(task, [task EXCEPT !.pc = "json"])
            /\ log' = Step("fetched")
            /\ UNCHANGED <<isBusy, shouldAutoListen, objectDetectionModel, rec,
                           errTimers, dwellTimers, srcObject, liveStreams, hidden,
                           statusText, resultDiv, processing, appConfig, cameraViewOk,
                           ncmd>>
       ELSE QAFailed(task, "httpFail")

\* app.js:296 rejected (network failure)
FetchReject(task) ==
  /\ task.pc = "fetch"
  /\ QAFailed(task, "fetchFail")

Contents == {"missing", "spaces", "words"}

\* app.js:317-318  data?.choices?.[0]?.message?.content || fallback, trimmed
AnswerText(content) ==
  IF content = "missing" THEN NoAnswerYet
  ELSE IF Trimmed(content) = "empty" THEN <<"">>
  ELSE <<"(the answer)">>

\* app.js:316-318, 279-281, 287-289  the body parsed
JsonResolve(task, content) ==
  /\ task.pc = "json"
  /\ resultDiv' = AnswerText(content)
  /\ statusText' = "Listening..."
  /\ processing' = FALSE
  /\ tasks' = tasks \ {task}
  /\ log' = [Step("answered") EXCEPT !.said = <<AnswerText(content)>>, !.done = TRUE,
                                     !.input = content]
  /\ UNCHANGED <<isBusy, shouldAutoListen, objectDetectionModel, rec, errTimers,
                 dwellTimers, srcObject, liveStreams, hidden, appConfig, cameraViewOk,
                 ncmd>>

\* app.js:316 rejected (the body is not JSON)
JsonReject(task) ==
  /\ task.pc = "json"
  /\ QAFailed(task, "jsonFail")

(* ------------------------------ resetApp ------------------------------ *)
\* app.js:255, 322-336  the dwell timer fired
DwellFire(id) ==
  /\ id \in dwellTimers
  /\ dwellTimers' = dwellTimers \ {id}
  /\ ResetCamera
  /\ statusText' = resetApp(Surface).statusText
  /\ log' = [Step("dwell") EXCEPT !.calls = {"resetApp"}, !.timer = id]
  /\ UNCHANGED <<shouldAutoListen, objectDetectionModel, rec, tasks, errTimers,
                 resultDiv, appConfig, cameraViewOk, ncmd>>

(* --------------------------- specifications --------------------------- *)
\* The ids a command cycle can have (app.js:76: one per dispatched result)
CycleIds == 1..MaxCommands

Recognizer ==
  \/ \E t \in Transcripts : RecResult(t)
  \/ RecEnd
  \/ RecError
  \/ RecNoMatch

Timers ==
  \/ ErrTimerFire
  \/ \E id \in dwellTimers : DwellFire(id)

CameraStep(preds) ==
  \E task \in tasks :
    \/ GumResolve(task)
    \/ \E e \in GumErrors : GumReject(task, e)
    \/ StreamReady(task)
    \/ StreamError(task)
    \/ StreamNever(task)
    \/ ModelLoadOk(task)
    \/ \E e \in ModelErrors : ModelLoadFail(task, e)
    \/ \E p \in preds : DetectResolve(task, p)
    \/ \E e \in ModelErrors : DetectReject(task, e)
    \/ PauseDone(task)

QuestionStep ==
  \E task \in tasks :
    \/ \E ok \in BOOLEAN : FetchResolve(task, ok)
    \/ FetchReject(task)
    \/ \E c \in Contents : JsonResolve(task, c)
    \/ JsonReject(task)

Next == Recognizer \/ Timers \/ CameraStep(SmallPreds) \/ QuestionStep

Spec == Init /\ [][Next]_vars

\* What the browser guarantees: a session that delivered a result or an error
\* ends, timers fire, and a pending promise is settled (a suspended function
\* resumes).  What the user says, and which way a promise settles, is free.
FairSpec ==
  /\ Spec
  /\ WF_vars(RecEnd)
  /\ WF_vars(ErrTimerFire)
  /\ \A id \in CycleIds : WF_vars(DwellFire(id))
  /\ WF_vars(CameraStep(SmallPreds))
  /\ WF_vars(QuestionStep)

\* The aggregation loop of analyzeImage on its own, from the state a detect
\* cycle is in when its first inference pass is pending (reached in Spec by
\* a detect command, the end of the session, getUserMedia, the stream
\* becoming playable and the model loading), with every prediction list of
\* up to MaxPreds entries.
InitAnalyze ==
  /\ isBusy = TRUE
  /\ shouldAutoListen = TRUE
  /\ objectDetectionModel = TRUE
  /\ rec = "idle"
  /\ tasks = {NewTask(1, "detect", "detect")}
  /\ errTimers = 0
  /\ dwellTimers = {}
  /\ srcObject = 1
  /\ liveStreams = {1}
  /\ hidden = FALSE
  /\ statusText = "Processing..."
  /\ resultDiv = <<>>
  /\ processing = TRUE
  /\ appConfig = "emptyKey"
  /\ cameraViewOk = TRUE
  /\ ncmd = 1
  /\ log = [BaseLog EXCEPT !.op = "loaded", !.busy = TRUE, !.calls = {"detect"}]

NextAnalyze ==
  \/ \E task \in tasks :
       \/ \E p \in AllPreds : DetectResolve(task, p)
       \/ \E e \in ModelErrors : DetectReject(task, e)
       \/ PauseDone(task)
  \/ \E id \in dwellTimers : DwellFire(id)

SpecAnalyze == InitAnalyze /\ [][NextAnalyze]_vars

\* speakResults on its own: the last inference pass of a detect cycle whose
\* first two passes found nothing returns any list of up to MaxDetections
\* detections above the threshold, which is then narrated.
NarrateLists == SeqsUpTo({DetA, DetB}, MaxDetections)

InitNarrate ==
  /\ isBusy = TRUE
  /\ shouldAutoListen = TRUE
  /\ objectDetectionModel = TRUE
  /\ rec = "idle"
  /\ tasks = {[NewTask(1, "detect", "detect") EXCEPT
                 !.i = 2, !.passes = << <<>>, <<>> >>, !.pausedAfter = {1, 2}]}
  /\ errTimers = 0
  /\ dwellTimers = {}
  /\ srcObject = 1
  /\ liveStreams = {1}
  /\ hidden = FALSE
  /\ statusText = "Processing..."
  /\ resultDiv = <<>>
  /\ processing = TRUE
  /\ appConfig = "emptyKey"
  /\ cameraViewOk = TRUE
  /\ ncmd = 1
  /\ log = [BaseLog EXCEPT !.op = "paused", !.busy = TRUE, !.calls = {"detect"}]

NextNarrate ==
  \/ \E task \in tasks : \E p \in NarrateLists : DetectResolve(task, p)
  \/ \E id \in dwellTimers : DwellFire(id)

SpecNarrate == InitNarrate /\ [][NextNarrate]_vars

\* InitAnalyze is a state of Spec.
AnalyzeStartNotReached ==
  ~ ( /\ isBusy /\ objectDetectionModel /\ rec = "idle"
      /\ tasks = {NewTask(1, "detect", "detect")}
      /\ errTimers = 0 /\ dwellTimers = {} /\ srcObject = 1 /\ liveStreams = {1}
      /\ ~hidden /\ statusText = "Processing..." /\ resultDiv = <<>> /\ processing
      /\ appConfig = "emptyKey" /\ cameraViewOk /\ ncmd = 1
      /\ log = [BaseLog EXCEPT !.op = "loaded", !.busy = TRUE, !.calls = {"detect"}] )

(* ------------------------------- claims ------------------------------- *)
SideEffects(lg) == lg.calls # {} \/ lg.said # <<>>

\* C1: busy gate. A 'result' listener entered while isBusy is true invokes
\* no side-effecting component (startCamera, analyzeImage, resetApp,
\* handleGeneralQuestion, askLLM, speak): no command is dispatched until
\* isBusy is false again.  The listener has no test of isBusy; what keeps
\* this true is that the recognizer is never started while isBusy is true,
\* so that no result is delivered then.
C1_BusyGate ==
  (log.op = "result" /\ log.busy) => ~SideEffects(log)

\* C1 witness: a second command is dispatched after a camera cycle, which had
\* set isBusy, has completed and cleared it; while it was busy the 'end'
\* listener had declined to restart (the first session ended busy).
C1_Witness ==
  /\ log.op = "result" /\ ncmd = 2 /\ ~log.busy /\ SideEffects(log)
  /\ liveStreams # {}

\* C2: at most one command cycle (camera-open, detect, question) is in
\* flight at any time.  Violated: a question cycle leaves isBusy false.
C2_OneCycleInFlight == Cardinality(tasks) <= 1

\* C3: after every completed command cycle, with autoListen true, the
\* recognizer is eventually listening again.  Violated under FairSpec: a
\* session that ends while a camera cycle is busy is never restarted.
C3_AutoResume == (log.done /\ shouldAutoListen) ~> (rec = "listening")

\* C4: isBusy is never stuck true: whenever it is true it eventually is
\* false again.  Violated under FairSpec: StreamNever.
C4_BusyCleared == isBusy ~> ~isBusy

\* C5: after a recognition 'error' event, with autoListen true, the
\* recognizer is eventually listening again.
C5_ErrorsNotFatal == (log.op = "error" /\ shouldAutoListen) ~> (rec = "listening")

\* C5 witness: the backoff timer of an error fired while a command cycle was
\* busy (and so did not restart), the recognizer having listened in between.
C5_Witness == log.op = "errTimer" /\ log.busy /\ log.calls = {}

\* C6: the 'end' listener and the backoff timer call recognition.start() only
\* when autoListen is true and isBusy is false.
C6_RestartOnlyWhenIdle ==
  (log.op \in {"end", "errTimer"} /\ "start" \in log.calls)
     => (~log.busy /\ shouldAutoListen)

\* C6 witness: the 'end' listener ran while busy and left the recognizer idle.
C6_Witness == log.op = "end" /\ log.busy /\ log.calls = {} /\ rec = "idle"

\* C7: every stream ever acquired is the one attached to the video surface
\* or has had all its tracks stopped.  Violated: GumResolve replaces an
\* attached live stream.
C7_NoDanglingStream == liveStreams \subseteq {srcObject}

\* C8: the dispatched intent is the first matching category in the order
\* help > open camera > close camera > detect, the question fallback exactly
\* when none matches, and the listener runs that branch and no other.
Priority == <<"help", "open", "close", "detect">>

FirstMatch(t) ==
  IF \E k \in 1..4 : t[Priority[k]]
    THEN Priority[CHOOSE k \in 1..4 : t[Priority[k]] /\ \A j \in 1..(k - 1) : ~t[Priority[j]]]
    ELSE "question"

BranchesRun(lg) ==
  {b \in {"help", "camera", "close", "question"} :
     \/ b = "help" /\ <<HELP_MESSAGE>> \in {lg.said[k] : k \in 1..Len(lg.said)}
     \/ b = "camera" /\ "startCamera" \in lg.calls
     \/ b = "close" /\ "resetApp" \in lg.calls
     \/ b = "question" /\ "handleGeneralQuestion" \in lg.calls}

BranchOf(intent) == IF intent \in {"open", "detect"} THEN "camera" ELSE intent

C8_ClassificationPriority ==
  log.op = "result" =>
    /\ log.intent = FirstMatch(log.t)
    /\ BranchesRun(log) = {BranchOf(FirstMatch(log.t))}
    /\ \A task \in tasks : task.id = ncmd =>
         task.kind = IF FirstMatch(log.t) = "question" THEN "question"
                     ELSE FirstMatch(log.t)

\* C8 witness: a transcript with an open-camera and a detect phrase opened
\* the camera without analysis.
C8_Witness ==
  /\ log.op = "result" /\ log.t.open /\ log.t.detect /\ ~log.t.help
  /\ \E task \in tasks : task.id = ncmd /\ task.kind = "open"

\* C9: an empty or whitespace-only transcript makes no network request,
\* speaks nothing, leaves the result area and isBusy as they were.
C9_BlankTranscript ==
  [][(log'.op = "result" /\ log'.t.body # "words")
       => /\ log'.said = <<>>
          /\ log'.calls \cap {"askLLM", "fetch"} = {}
          /\ tasks' = tasks
          /\ resultDiv' = resultDiv
          /\ isBusy' = isBusy]_vars

\* C9 witness: a whitespace-only transcript was handled with an API key set.
C9_Witness == log.op = "result" /\ log.t.body = "spaces" /\ hasKey /\ ncmd = 2

\* C10: analyzeImage runs exactly 3 passes, pauses after the first and the
\* second only, and narrates the pass with the largest count of detections
\* above 0.5, the earliest such pass on ties (empty when all counts are 0).
Narrated == "speakResults" \in log.calls

C10_Aggregation ==
  Narrated =>
    /\ Len(log.det.passes) = 3
    /\ log.det.pausedAfter = {1, 2}
    /\ \A k \in 1..3 : \A d \in 1..Len(log.det.passes[k]) :
         log.det.passes[k][d].score > 500
    /\ \E k \in 1..3 :
         /\ log.det.narrated = log.det.passes[k]
         /\ \A j \in 1..3 : Len(log.det.passes[j]) <= Len(log.det.passes[k])
         /\ \A j \in 1..(k - 1) : Len(log.det.passes[j]) < Len(log.det.passes[k])
    /\ log.said = <<Describe(log.det.narrated)>>

\* C10 witness: filtered counts 1, 3, 2; the second pass was narrated.
C10_Witness ==
  /\ Narrated
  /\ Len(log.det.passes[1]) = 1
  /\ Len(log.det.passes[2]) = 3
  /\ Len(log.det.passes[3]) = 2
  /\ log.det.narrated = log.det.passes[2]

\* C11 as stated: at most the first 5 detections are rendered in input order
\* and joined as: none, the fixed phrase; one, the item; two, "X and Y";
\* three or more, "X, Y, and Z" with a comma after every item before the
\* final "and"; wrapped as "I detect ... .".  Violated from three items on:
\* joinNatural writes no comma before "and".
Shown(detections) ==
  SubSeq(detections, 1, IF Len(detections) < 5 THEN Len(detections) ELSE 5)

SepAfter(k, n, oxford) ==
  IF k < n - 1 THEN <<",", " ">>
  ELSE IF n >= 3 /\ oxford THEN <<",", " ", "and", " ">>
  ELSE <<" ", "and", " ">>

RECURSIVE ListFrom(_, _, _)
ListFrom(ds, k, oxford) ==
  IF k = Len(ds) THEN Render(ds[k])
  ELSE Render(ds[k]) \o SepAfter(k, Len(ds), oxford) \o ListFrom(ds, k + 1, oxford)

Sentence(detections, oxford) ==
  IF Len(detections) = 0 THEN <<"I cannot clearly identify any objects.">>
  ELSE <<"I detect ">> \o ListFrom(Shown(detections), 1, oxford) \o <<".">>

C12_Unconfigured ==
  (log.op = "result" /\ log.intent = "question" /\ log.t.body = "words"
     /\ appConfig \in {"absent", "emptyKey"})
    => /\ resultDiv = <<"General Q&A is not configured. Please add your API key.">>
       /\ log.said = <<resultDiv>>
       /\ log.calls \cap {"askLLM", "fetch"} = {}
       /\ ~log.failed
       /\ \A task \in tasks : task.id # ncmd

\* C12 witness: a question was declined with AppConfig absent.
C12_Witness ==
  /\ log.op = "result" /\ log.intent = "question" /\ log.t.body = "words"
  /\ appConfig = "absent" /\ log.said = <<NotConfigured>>

\* C13: resetApp is idempotent: from every reachable state, twice in a row
\* leaves what once leaves (stream, visibility, status, indicator, isBusy,
\* autoListen); with no stream attached it changes no camera state; and the
\* state a reset has just left is one a further reset does not change.
C13_ResetIdempotent ==
  LET once == resetApp(Surface)
  IN  /\ resetApp(once) = once
      /\ once.shouldAutoListen = shouldAutoListen
      /\ srcObject = 0 =>
           /\ once.srcObject = srcObject
           /\ once.liveStreams = liveStreams
           /\ once.hidden = hidden
      /\ log.op = "dwell" => once = Surface

\* C13 witness: the dwell timer has just reset a session that a later cycle
\* had made busy, and a further reset would find nothing to change.
C13_Witness ==
  /\ log.op = "dwell" /\ log.busy /\ tasks # {}
  /\ srcObject = 0 /\ hidden /\ ~isBusy

\* C14: when getUserMedia rejects or the stream reports an error, in an open
\* or a detect cycle, the error message is all that is spoken and it is what
\* the status line shows; the video stays hidden, no detection is started and
\* nothing announces that the camera is on.
C14_CameraFailureAborts ==
  log.op \in {"gumFail", "streamFail"} =>
    /\ log.failed
    /\ Len(log.said) = 1
    /\ log.said[1] # CameraOn
    /\ statusText = log.said[1][1]
    /\ statusText # "Camera is on. Listening..."
    /\ log.calls \cap {"analyzeImage", "load", "detect"} = {}

C16_BusyWhileInFlight == tasks # {} => isBusy

QAFailOps == {"httpFail", "fetchFail", "jsonFail"}

\* C17: a question whose request fails (non-ok status, network failure,
\* unparsable body) ends inside its own cycle: the fixed fallback is shown
\* and spoken, the indicator is cleared, and nothing a later dispatch depends
\* on (isBusy, autoListen, the recognizer, its retry timers) is touched; a
\* parsed response without an answer shows and speaks the fixed answer
\* string and does not take the failure path.
C17_QAFailureContained ==
  [][/\ log'.op \in QAFailOps =>
          /\ resultDiv' = QAFallback
          /\ log'.said = <<QAFallback>>
          /\ log'.failed /\ log'.done
          /\ ~processing'
          /\ \A task \in tasks' : task \in tasks
          /\ tasks' # tasks
          /\ UNCHANGED <<isBusy, shouldAutoListen, rec, errTimers>>
     /\ (log'.op = "answered" /\ log'.input = "missing") =>
          /\ resultDiv' = NoAnswerYet
          /\ log'.said = <<NoAnswerYet>>
          /\ ~log'.failed /\ log'.done
          /\ ~processing'
          /\ statusText' = "Listening..."]_vars

\* C17 witness: a command is dispatched while the fallback of a failed
\* question is still on display.
C17_Witness ==
  /\ log.op = "result" /\ log.intent # "none" /\ ncmd = 2
  /\ resultDiv = QAFallback

\* C18: cocoSsd.load is called only while no model is cached, a load that
\* succeeds fills the cache and the cache is never emptied (so at most one
\* load succeeds); a load that fails leaves the cache empty, ends that cycle
\* alone (its error spoken and shown, isBusy cleared, no dwell timer armed,
\* other cycles untouched); and a detect cycle that finds the cache empty
\* calls load.
C18_ModelLoadedOnce ==
  [][/\ "load" \in log'.calls => ~objectDetectionModel
     /\ objectDetectionModel => objectDetectionModel'
     /\ log'.op = "loaded" => ~objectDetectionModel /\ objectDetectionModel'
     /\ log'.op = "loadFail" =>
          /\ ~objectDetectionModel'
          /\ ~isBusy' /\ ~processing'
          /\ log'.failed /\ Len(log'.said) = 1
          /\ statusText' = log'.said[1][1]
          /\ \E task \in tasks : task.pc = "load" /\ tasks' = tasks \ {task}
          /\ UNCHANGED <<dwellTimers, resultDiv, shouldAutoListen>>
     /\ ("analyzeImage" \in log'.calls /\ ~objectDetectionModel) =>
          "load" \in log'.calls]_vars

\* C18 witness: a detect cycle reaches analyzeImage with the model an
\* earlier cycle loaded, and goes straight to inference.
C18_Witness ==
  /\ log.op = "ready" /\ log.calls = {"analyzeImage", "detect"}
  /\ objectDetectionModel /\ ncmd = 2
  /\ \E task \in tasks : task.id = 2 /\ task.pc = "detect"

\* C19: the reset fired by the dwell timer of a detection never runs while a
\* camera cycle dispatched after that detection is in flight.
C19_DwellNotDuringLaterCycle ==
  log.op = "dwell" =>
    \A task \in tasks : task.kind \in {"open", "detect"} => task.id <= log.timer

\* C20: no step of the 'end' listener or of the error backoff timer invokes
\* recognition.start() on a recognizer that is already listening.
C20_StartOnlyWhenIdle ==
  [][("start" \in log'.calls /\ log'.op \in {"end", "errTimer"}) => rec # "listening"]_vars

====
